---- MODULE Spec2Model ----
(***************************************************************************)
(* A model of caesura's FLAC metadata reader (src/src/caesura/audio.py):   *)
(* FLACAudio.load walks the chain of metadata blocks of a file and fills   *)
(* self._metadata; the metadata property loads lazily.                     *)
(*                                                                         *)
(* Representation.  A byte is an integer 0..255 and bytes objects are      *)
(* sequences of bytes.  Python positions are 0-based and slices half-open; *)
(* Slice and At translate them.  A str obtained with bytes.decode() is     *)
(* represented by its UTF-8 bytes (decoding is injective on valid input).  *)
(* Unsigned integers wider than 31 bits (TLC integers are 32-bit) are      *)
(* represented by their big-endian bytes without leading zeros (Big),      *)
(* which is a canonical form: two are equal iff the integers are equal.    *)
(***************************************************************************)
EXTENDS Integers, Sequences, FiniteSets, TLC

VARIABLES
    file,          \* the bytes of the file at self._file_path
    tags_only,     \* self._tags_only
    validate,      \* self._validate
    has_metadata,  \* hasattr(self, "_metadata")
    self_metadata, \* self._metadata (meaningful when has_metadata)
    last,          \* what the last call did: operation, outcome, cursor, ...
    n_calls,       \* calls made so far (bounded by MaxCalls)
    n_property_loads, \* load() calls made by the metadata property so far
    vc_bytestream, \* the argument bytestream of VorbisComment(): bytes or None
    vc_ignore_duplicates, \* the argument ignore_duplicates of VorbisComment()
    vc_obj,        \* the VorbisComment object: whether built, its attributes
    vc_last        \* what the last call on vc_obj did: operation, outcome, ...

\* the variables of a VorbisComment object used on its own
comment_vars == <<vc_bytestream, vc_ignore_duplicates, vc_obj, vc_last>>

\* the variables of a FLACAudio object
flac_vars == <<file, tags_only, validate, has_metadata, self_metadata, last,
               n_property_loads>>

vars == <<file, tags_only, validate, has_metadata, self_metadata, last,
          n_calls, n_property_loads, vc_bytestream, vc_ignore_duplicates,
          vc_obj, vc_last>>

(***************************************************************************)
(* Bounds of the model.                                                    *)
(***************************************************************************)
MaxCalls == 2    \* calls (load() or .metadata) made on one object
MaxBlocks == 2   \* metadata blocks written into a generated file
MaxCut == 5      \* bytes cut off the end of a generated file
MaxFields == 3   \* KEY=VALUE records in a generated comment block
MaxTracks == 2   \* plain tracks in a generated cue sheet
MaxIndexPoints == 2 \* index points of a track of a generated cue sheet

(***************************************************************************)
(* bytes helpers                                                           *)
(***************************************************************************)
Min(a, b) == IF a < b THEN a ELSE b
Max(a, b) == IF a > b THEN a ELSE b

\* bs[a:b] for 0 <= a, 0 <= b (Python clamps both ends to len(bs))
Slice(bs, a, b) ==
    LET lo == Min(a, Len(bs))
        hi == Min(b, Len(bs))
    IN  IF hi <= lo THEN <<>> ELSE SubSeq(bs, lo + 1, hi)

\* bs[a:]
SliceFrom(bs, a) == Slice(bs, a, Len(bs))

\* bs[i] is defined (no IndexError) iff HasAt(bs, i)
HasAt(bs, i) == i >= 0 /\ i < Len(bs)
At(bs, i) == bs[i + 1]

Zeros(n) == [i \in 1..n |-> 0]

RECURSIVE FromBytes(_)
\* int.from_bytes(bs) (big-endian), for values that fit TLC's integers
FromBytes(bs) ==
    IF bs = <<>> THEN 0
    ELSE 256 * FromBytes(SubSeq(bs, 1, Len(bs) - 1)) + bs[Len(bs)]

RECURSIVE FromBytesLittle(_)
\* int.from_bytes(bs, byteorder="little")
FromBytesLittle(bs) ==
    IF bs = <<>> THEN 0 ELSE bs[1] + 256 * FromBytesLittle(Tail(bs))

RECURSIVE Big(_)
\* int.from_bytes(bs) for wide fields: the big-endian digits, leading zeros
\* removed (<<>> is 0)
Big(bs) == IF bs # <<>> /\ bs[1] = 0 THEN Big(Tail(bs)) ELSE bs

RECURSIVE LexLess(_, _)
LexLess(a, b) ==
    IF a = <<>> THEN FALSE
    ELSE IF a[1] # b[1] THEN a[1] < b[1]
    ELSE LexLess(Tail(a), Tail(b))

\* a < b for two Big values
BigLess(a, b) ==
    IF Len(a) # Len(b) THEN Len(a) < Len(b) ELSE LexLess(a, b)

RECURSIVE BigMod(_, _, _)
\* (the integer of big-endian digits bs, continued from remainder r) % m
BigMod(bs, r, m) ==
    IF bs = <<>> THEN r ELSE BigMod(Tail(bs), (256 * r + bs[1]) % m, m)

\* the number of continuation bytes the UTF-8 lead byte b announces (0 for
\* ASCII), -1 when b cannot start a character
Utf8Need(b) ==
    IF b < 128 THEN 0
    ELSE IF b >= 194 /\ b <= 223 THEN 1
    ELSE IF b >= 224 /\ b <= 239 THEN 2
    ELSE IF b >= 240 /\ b <= 244 THEN 3
    ELSE -1

Utf8IsCont(b) == b >= 128 /\ b <= 191

\* bs.decode() succeeds (strict UTF-8: no overlong forms, no surrogates,
\* nothing above U+10FFFF): every lead byte is followed by the continuation
\* bytes it announces, the first of them in the range its lead allows, and
\* every continuation byte follows a lead byte that announces it
Utf8Ok(bs) ==
    \A i \in 1..Len(bs) :
        LET b == bs[i]
            cont(j, lo, hi) == j <= Len(bs) /\ bs[j] >= lo /\ bs[j] <= hi
        IN  IF Utf8IsCont(b)
            THEN \E k \in 1..Min(3, i - 1) :
                    /\ Utf8Need(bs[i - k]) >= k
                    /\ \A j \in (i - k + 1)..(i - 1) : Utf8IsCont(bs[j])
            ELSE /\ Utf8Need(b) >= 0
                 /\ Utf8Need(b) >= 1 =>
                        cont(i + 1,
                             IF b = 224 THEN 160 ELSE IF b = 240 THEN 144 ELSE 128,
                             IF b = 237 THEN 159 ELSE IF b = 244 THEN 143 ELSE 191)
                 /\ Utf8Need(b) >= 2 => cont(i + 2, 128, 191)
                 /\ Utf8Need(b) >= 3 => cont(i + 3, 128, 191)

\* len(s) of the str whose UTF-8 bytes are bs: its code points
StrLen(bs) == Cardinality({i \in 1..Len(bs) : bs[i] < 128 \/ bs[i] >= 192})

\* s.rstrip("\x00") / bs.rstrip(b"\x00")
RStripZeros(bs) ==
    LET nonzero == {i \in 1..Len(bs) : bs[i] # 0}
    IN  IF nonzero = {} THEN <<>>
        ELSE SubSeq(bs, 1, CHOOSE i \in nonzero : \A j \in nonzero : j <= i)

(***************************************************************************)
(* The state of one load() call: the file cursor, self._metadata as built  *)
(* so far, the loop variable block_header, the exception raised ("" while  *)
(* none), and what was done: the block types of the headers read, the      *)
(* lengths of the bodies read, the block types warned about.               *)
(***************************************************************************)
EmptyDict == [k \in {} |-> 0]

\* d[k] = v
Put(d, k, v) == [x \in DOMAIN d \cup {k} |-> IF x = k THEN v ELSE d[x]]

Raise(st, e) == [st EXCEPT !.err = e]

\* file.read(n) at cursor pos: the bytes returned (short at end of file)
FileRead(f, pos, n) == Slice(f, pos, pos + n)

\* the state after file.read() returned block_data as a block body
AfterRead(st, block_data) ==
    [st EXCEPT !.pos = st.pos + Len(block_data),
               !.bodies = Append(st.bodies, Len(block_data))]

(***************************************************************************)
(* hashlib.md5(bs).hexdigest(): MD5 (RFC 1321) over 32-bit words, each     *)
(* held as <<high 16 bits, low 16 bits>>                                   *)
(***************************************************************************)
RECURSIVE And16(_, _)
And16(a, b) ==
    IF a = 0 \/ b = 0 THEN 0
    ELSE ((a % 2) * (b % 2)) + (2 * And16(a \div 2, b \div 2))

Or16(a, b) == a + b - And16(a, b)
Xor16(a, b) == a + b - 2 * And16(a, b)
Not16(a) == 65535 - a

WordAnd(x, y) == <<And16(x[1], y[1]), And16(x[2], y[2])>>
WordOr(x, y) == <<Or16(x[1], y[1]), Or16(x[2], y[2])>>
WordXor(x, y) == <<Xor16(x[1], y[1]), Xor16(x[2], y[2])>>
WordNot(x) == <<Not16(x[1]), Not16(x[2])>>

\* x + y modulo 2^32
WordAdd(x, y) ==
    <<(x[1] + y[1] + ((x[2] + y[2]) \div 65536)) % 65536, (x[2] + y[2]) % 65536>>

Pow2 == <<1, 2, 4, 8, 16, 32, 64, 128, 256, 512, 1024, 2048, 4096, 8192, 16384, 32768, 65536>>

\* x rotated left by s bits, 0 < s < 32
RotateLeft(x, s) ==
    LET y == IF s >= 16 THEN <<x[2], x[1]>> ELSE x
        r == s % 16
    IN  IF r = 0 THEN y
        ELSE <<((y[1] * Pow2[r + 1]) % 65536) + (y[2] \div Pow2[17 - r]),
               ((y[2] * Pow2[r + 1]) % 65536) + (y[1] \div Pow2[17 - r])>>

\* floor(2^32 * abs(sin(i + 1))) for i = 0..63
Md5K ==
    <<
      <<55146, 42104>>, <<59591, 46934>>, <<9248, 28891>>, <<49597, 52974>>,
      <<62844, 4015>>, <<18311, 50730>>, <<43056, 17939>>, <<64838, 38145>>,
      <<27008, 39128>>, <<35652, 63407>>, <<65535, 23473>>, <<35164, 55230>>,
      <<27536, 4386>>, <<64920, 29075>>, <<42617, 17294>>, <<18868, 2081>>,
      <<63006, 9570>>, <<49216, 45888>>, <<9822, 23121>>, <<59830, 51114>>,
      <<54831, 4189>>, <<580, 5203>>, <<55457, 59009>>, <<59347, 64456>>,
      <<8673, 52710>>, <<49975, 2006>>, <<62677, 3463>>, <<17754, 5357>>,
      <<43491, 59653>>, <<64751, 41976>>, <<26479, 729>>, <<36138, 19594>>,
      <<65530, 14658>>, <<34673, 63105>>, <<28061, 24866>>, <<64997, 14348>>,
      <<42174, 59972>>, <<19422, 53161>>, <<63163, 19296>>, <<48831, 48240>>,
      <<10395, 32454>>, <<60065, 10234>>, <<54511, 12421>>, <<1160, 7429>>,
      <<55764, 53305>>, <<59099, 39397>>, <<8098, 31992>>, <<50348, 22117>>,
      <<62505, 8772>>, <<17194, 65431>>, <<43924, 9127>>, <<64659, 41017>>,
      <<25947, 22979>>, <<36620, 52370>>, <<65519, 62589>>, <<34180, 24017>>,
      <<28584, 32335>>, <<65068, 59104>>, <<41729, 17172>>, <<19976, 4513>>,
      <<63315, 32386>>, <<48442, 62005>>, <<10967, 53947>>, <<60294, 54161>>>>

\* the per-round shift amounts
Md5S ==
    <<
      7, 12, 17, 22, 7, 12, 17, 22, 7, 12, 17, 22, 7, 12, 17, 22,
      5, 9, 14, 20, 5, 9, 14, 20, 5, 9, 14, 20, 5, 9, 14, 20,
      4, 11, 16, 23, 4, 11, 16, 23, 4, 11, 16, 23, 4, 11, 16, 23,
      6, 10, 15, 21, 6, 10, 15, 21, 6, 10, 15, 21, 6, 10, 15, 21>>

Md5Init == <<<<26437, 8961>>, <<61389, 43913>>, <<39098, 56574>>, <<4146, 21622>>>>

\* the message padded to a multiple of 64 bytes: 0x80, zero bytes, and the
\* length in bits as 8 little-endian bytes
Md5Pad(bs) ==
    LET bits == 8 * Len(bs)
    IN  bs \o <<128>> \o Zeros((119 - Len(bs)) % 64)
        \o <<bits % 256, (bits \div 256) % 256, (bits \div 65536) % 256, 0, 0, 0, 0, 0>>

\* little-endian word g (0..15) of the 64-byte block that starts at pos
Md5Word(msg, pos, g) ==
    <<At(msg, pos + 4 * g + 2) + 256 * At(msg, pos + 4 * g + 3),
      At(msg, pos + 4 * g) + 256 * At(msg, pos + 4 * g + 1)>>

\* the mixing function and message word index of operation i (0..63)
Md5Mix(i, b, c, d) ==
    IF i < 16 THEN WordOr(WordAnd(b, c), WordAnd(WordNot(b), d))
    ELSE IF i < 32 THEN WordOr(WordAnd(d, b), WordAnd(WordNot(d), c))
    ELSE IF i < 48 THEN WordXor(b, WordXor(c, d))
    ELSE WordXor(c, WordOr(b, WordNot(d)))

Md5Index(i) ==
    IF i < 16 THEN i
    ELSE IF i < 32 THEN (5 * i + 1) % 16
    ELSE IF i < 48 THEN (3 * i + 5) % 16
    ELSE (7 * i) % 16

\* the state <<a, b, c, d>> after operation i (0..63) from state h
Md5Operation(msg, pos, i, h) ==
    LET f == WordAdd(WordAdd(Md5Mix(i, h[2], h[3], h[4]), h[1]),
                     WordAdd(Md5K[i + 1], Md5Word(msg, pos, Md5Index(i))))
    IN  <<h[4], WordAdd(h[2], RotateLeft(f, Md5S[i + 1])), h[2], h[3]>>

RECURSIVE Md5Operations(_, _, _)
\* the state after the 64 operations on the block at pos; hs holds the
\* states so far, the starting state first
Md5Operations(msg, pos, hs) ==
    IF Len(hs) = 65 THEN hs[65]
    ELSE Md5Operations(msg, pos,
             Append(hs, Md5Operation(msg, pos, Len(hs) - 1, hs[Len(hs)])))

RECURSIVE Md5Blocks(_, _, _)
\* the state after the blocks of msg from pos on
Md5Blocks(msg, pos, h) ==
    IF pos >= Len(msg) THEN h
    ELSE LET r == Md5Operations(msg, pos, <<h>>)
         IN  Md5Blocks(msg, pos + 64,
                 <<WordAdd(h[1], r[1]), WordAdd(h[2], r[2]),
                   WordAdd(h[3], r[3]), WordAdd(h[4], r[4])>>)

\* the 4 bytes of a word, least significant first
WordBytes(x) == <<x[2] % 256, x[2] \div 256, x[1] % 256, x[1] \div 256>>

HexDigit(n) == IF n < 10 THEN 48 + n ELSE 87 + n

\* bytes.hex(): two lowercase hexadecimal digits per byte
Hex(bs) == [i \in 1..2 * Len(bs) |->
              IF i % 2 = 1 THEN HexDigit(bs[(i + 1) \div 2] \div 16)
              ELSE HexDigit(bs[i \div 2] % 16)]

Md5Digest(bs) ==
    LET h == Md5Blocks(Md5Pad(bs), 0, Md5Init)
    IN  WordBytes(h[1]) \o WordBytes(h[2]) \o WordBytes(h[3]) \o WordBytes(h[4])

\* the digests of the zero-byte strings of up to 16 bytes, computed once
Md5OfZeros == [n \in 0..16 |-> Hex(Md5Digest(Zeros(n)))]

md5_hexdigest(bs) ==
    IF Len(bs) <= 16 /\ bs = Zeros(Len(bs)) THEN Md5OfZeros[Len(bs)]
    ELSE Hex(Md5Digest(bs))

\* bs left-padded with zero bytes to n bytes (the same integer)
PadLeft(bs, n) == Zeros(n - Len(bs)) \o bs

\* case 0: STREAMINFO
StreamInfoCase(f, st, block_size, to, v) ==
    IF v /\ block_size # 34
    THEN Raise(st, "Invalid STREAMINFO block size")
    ELSE
    LET block_data == FileRead(f, st.pos, block_size)
        st1 == AfterRead(st, block_data)
        minimum_block_size == FromBytes(Slice(block_data, 0, 2))
        maximum_block_size == FromBytes(Slice(block_data, 2, 4))
    IN  IF to THEN st1
        ELSE IF v /\ (minimum_block_size < 16 \/ maximum_block_size < 16)
        THEN Raise(st1, "Invalid minimum or maximum stream block size")
        ELSE IF ~HasAt(block_data, 12) \/ ~HasAt(block_data, 13)
        THEN Raise(st1, "IndexError")
        ELSE [st1 EXCEPT !.metadata = Put(st1.metadata, "STREAMINFO",
                [minimum_block_size |-> minimum_block_size,
                 maximum_block_size |-> maximum_block_size,
                 minimum_frame_size |-> FromBytes(Slice(block_data, 4, 7)),
                 maximum_frame_size |-> FromBytes(Slice(block_data, 7, 10)),
                 sample_rate |-> FromBytes(Slice(block_data, 10, 13)) \div 16,
                 n_channels |-> ((At(block_data, 12) \div 2) % 8) + 1,
                 bits_per_sample |-> (At(block_data, 12) % 2) * 16
                                     + (At(block_data, 13) \div 16) + 1,
                 total_samples |-> Big(<<At(block_data, 13) % 16>>
                                   \o PadLeft(Slice(block_data, 14, 18), 4)),
                 md5 |-> md5_hexdigest(SliceFrom(block_data, 18))])]

\* PaddingCase with the tags_only `continue` placed before file.read()
PaddingCase_SkipsBeforeRead(f, st, block_size, to, v) ==
    IF to THEN st
    ELSE LET st1 == AfterRead(st, FileRead(f, st.pos, block_size))
         IN  [st1 EXCEPT !.metadata = Put(st1.metadata, "PADDING", block_size)]

\* case 1: PADDING
PaddingCase(f, st, block_size, to, v) ==
    LET st1 == AfterRead(st, FileRead(f, st.pos, block_size))
    IN  IF to THEN st1
        ELSE [st1 EXCEPT !.metadata = Put(st1.metadata, "PADDING", block_size)]

\* case 2: APPLICATION
ApplicationCase(f, st, block_size, to, v) ==
    IF v /\ (block_size - 4) % 8 # 0
    THEN Raise(st, "Invalid APPLICATION block size")
    ELSE
    LET block_data == FileRead(f, st.pos, block_size)
        st1 == AfterRead(st, block_data)
    IN  IF to THEN st1
        ELSE IF ~Utf8Ok(Slice(block_data, 0, 4))
        THEN Raise(st1, "UnicodeDecodeError")
        ELSE [st1 EXCEPT !.metadata = Put(st1.metadata, "APPLICATION",
                [id |-> Slice(block_data, 0, 4),
                 data |-> SliceFrom(block_data, 4)])]

\* 0xFFFFFFFFFFFFFFFF, the sample number of a placeholder seek point
PlaceholderSample == <<255, 255, 255, 255, 255, 255, 255, 255>>

\* the seek point at point_index of the SEEKTABLE body block_data
SeekPoint(block_data, point_index) ==
    LET i == 18 * point_index
        j == i + 8
        k == j + 8
    IN  <<Big(Slice(block_data, i, j)), Big(Slice(block_data, j, k)),
          FromBytes(Slice(block_data, k, k + 2))>>

\* the all(...) of the SEEKTABLE validation: every point after the first
\* has a larger sample number than the point before it, or is a placeholder
SeekTableValid(seek_table) ==
    \A index \in 1..(Len(seek_table) - 1) :
        LET sample == seek_table[index + 1][1]
        IN  BigLess(seek_table[index][1], sample) \/ sample = PlaceholderSample

\* case 3: SEEKTABLE
SeekTableCase(f, st, block_size, to, v) ==
    LET n_seek_points == block_size \div 18
        remainder == block_size % 18
    IN  IF v /\ remainder # 0
        THEN Raise(st, "Invalid SEEKTABLE block size")
        ELSE
        LET block_data == FileRead(f, st.pos, block_size)
            st1 == AfterRead(st, block_data)
            seek_table == [p \in 1..n_seek_points |-> SeekPoint(block_data, p - 1)]
            st2 == [st1 EXCEPT !.metadata = Put(st1.metadata, "SEEKTABLE", seek_table)]
        IN  IF to THEN st1
            ELSE IF v /\ ~SeekTableValid(seek_table)
            THEN Raise(st2, "Invalid SEEKTABLE block")
            ELSE st2

(***************************************************************************)
(* VorbisComment.__init__ on a bytestream                                  *)
(***************************************************************************)
\* Upper without the conversion: the key is kept as written
Upper_AsWritten(bs) == bs

\* s.upper() for ASCII text (the letters a-z; other bytes are kept)
Upper(bs) == [i \in 1..Len(bs) |-> IF bs[i] >= 97 /\ bs[i] <= 122
                                   THEN bs[i] - 32 ELSE bs[i]]

\* the position (1-based) of the first "=" of field, 0 when it has none
FirstEquals(field) ==
    IF \E i \in 1..Len(field) : field[i] = 61
    THEN CHOOSE i \in 1..Len(field) :
            field[i] = 61 /\ \A j \in 1..(i - 1) : field[j] # 61
    ELSE 0

\* value is one of the elements of the list values
InList(values, value) == \E i \in 1..Len(values) : values[i] = value

\* AddField that appends whatever ignore_duplicates is
AddField_AlwaysAppends(fields, key, value, ignore_duplicates) ==
    IF key \in DOMAIN fields
    THEN Put(fields, key, Append(fields[key], value))
    ELSE Put(fields, key, <<value>>)

\* self._fields after one more "KEY=value" record (key already upper-cased)
AddField(fields, key, value, ignore_duplicates) ==
    IF key \in DOMAIN fields
    THEN IF ignore_duplicates /\ InList(fields[key], value)
         THEN fields
         ELSE Put(fields, key, Append(fields[key], value))
    ELSE Put(fields, key, <<value>>)

RECURSIVE VorbisFields(_, _, _, _, _)
\* the loop over range(self._n_fields): [err, fields]
VorbisFields(bytestream, byte_offset, n, fields, ignore_duplicates) ==
    IF n = 0 THEN [err |-> "", fields |-> fields]
    ELSE
    LET field_length == FromBytesLittle(Slice(bytestream, byte_offset, byte_offset + 4))
        start == byte_offset + 4
        field == Slice(bytestream, start, start + field_length)
        eq == FirstEquals(field)
    IN  IF ~Utf8Ok(field) THEN [err |-> "UnicodeDecodeError", fields |-> fields]
        ELSE IF eq = 0 THEN [err |-> "ValueError: not enough values to unpack",
                             fields |-> fields]
        ELSE VorbisFields(bytestream, start + field_length, n - 1,
                          AddField(fields, Upper(SubSeq(field, 1, eq - 1)),
                                   SubSeq(field, eq + 1, Len(field)),
                                   ignore_duplicates),
                          ignore_duplicates)

\* VorbisComment(bytestream, ignore_duplicates=...): [err, obj]
VorbisComment(bytestream, ignore_duplicates) ==
    LET byte_offset == 4 + FromBytesLittle(Slice(bytestream, 0, 4))
        vendor == Slice(bytestream, 4, byte_offset)
        n_fields == FromBytesLittle(Slice(bytestream, byte_offset, byte_offset + 4))
        r == VorbisFields(bytestream, byte_offset + 4, n_fields, EmptyDict,
                          ignore_duplicates)
    IN  IF ~Utf8Ok(vendor) THEN [err |-> "UnicodeDecodeError", obj |-> EmptyDict]
        ELSE IF r.err # "" THEN [err |-> r.err, obj |-> EmptyDict]
        ELSE [err |-> "",
              obj |-> [vendor |-> vendor, n_fields |-> n_fields,
                       fields |-> r.fields,
                       ignore_duplicates |-> ignore_duplicates]]

\* case 4: VORBIS_COMMENT
VorbisCommentCase(f, st, block_size, to, v) ==
    LET block_data == FileRead(f, st.pos, block_size)
        st1 == AfterRead(st, block_data)
        vc == VorbisComment(block_data, FALSE)
    IN  IF vc.err # "" THEN Raise(st1, vc.err)
        ELSE [st1 EXCEPT !.metadata = Put(st1.metadata, "VORBIS_COMMENT", vc.obj)]

(***************************************************************************)
(* VorbisComment() without a bytestream, and VorbisComment.set.  A value   *)
(* of self._fields is a list; set() with ignore_duplicates makes the value *)
(* of a new key a dict until its last loop turns it into a list.  The obj  *)
(* records hold the lists and the dict keys in order under `fields` and    *)
(* the keys whose value is a dict under `dicts`.  Keys are ASCII text.     *)
(***************************************************************************)
\* str(b) for a byte b, as ASCII text: its decimal digits
DecStr(b) ==
    IF b < 10 THEN <<48 + b>>
    ELSE IF b < 100 THEN <<48 + (b \div 10), 48 + (b % 10)>>
    ELSE <<48 + (b \div 100), 48 + ((b \div 10) % 10), 48 + (b % 10)>>

\* VorbisComment(None, ignore_duplicates=...): [err, obj]
EmptyVorbisComment(ignore_dups) ==
    [err |-> "",
     obj |-> [vendor |-> [is_none |-> TRUE, str |-> <<>>], n_fields |-> 0,
              fields |-> EmptyDict, ignore_duplicates |-> ignore_dups]]

\* re.sub("[^\x20-\x3C\x3E-\x7E]", "_", key) for ASCII text
Sanitize(key) ==
    [i \in 1..Len(key) |-> IF (key[i] >= 32 /\ key[i] <= 60)
                              \/ (key[i] >= 62 /\ key[i] <= 126)
                           THEN key[i] ELSE 95]

\* the values passed to set(): a str, a bool, an int (0..255), None, or a
\* list of these
StrValue(s) == [kind |-> "str", s |-> s, n |-> 0, items |-> <<>>]
BoolValue(b) == [kind |-> "bool", s |-> <<>>, n |-> IF b THEN 1 ELSE 0, items |-> <<>>]
IntValue(n) == [kind |-> "int", s |-> <<>>, n |-> n, items |-> <<>>]
NoneValue == [kind |-> "none", s |-> <<>>, n |-> 0, items |-> <<>>]
ListValue(items) == [kind |-> "list", s |-> <<>>, n |-> 0, items |-> items]

\* the lambda to_string: str(int(value)) for a bool, str(value) for a Number
to_string(value) ==
    IF value.kind \in {"bool", "int"} THEN StrValue(DecStr(value.n)) ELSE value

UnsupportedType == "TypeError: unsupported type"
ListIndices == "TypeError: list indices must be integers or slices, not str"

\* `self._fields[key][value] = None` (ignore_dups) or
\* `self._fields[key].append(value)`, for a str value: [err, fields, dicts]
StoreValue(o, key, value, ignore_dups) ==
    IF ignore_dups
    THEN IF key \notin o.dicts THEN [o EXCEPT !.err = ListIndices]
         ELSE IF InList(o.fields[key], value) THEN o
         ELSE [o EXCEPT !.fields = Put(o.fields, key, Append(o.fields[key], value))]
    ELSE IF key \in o.dicts THEN [o EXCEPT !.err = "AttributeError"]
         ELSE [o EXCEPT !.fields = Put(o.fields, key, Append(o.fields[key], value))]

RECURSIVE SetItems(_, _, _, _, _)
\* `for item in value`, from position i
SetItems(o, key, items, i, ignore_dups) ==
    IF i > Len(items) \/ o.err # "" THEN o
    ELSE IF to_string(items[i]).kind # "str" THEN [o EXCEPT !.err = UnsupportedType]
    ELSE SetItems(StoreValue(o, key, to_string(items[i]).s, ignore_dups),
                  key, items, i + 1, ignore_dups)

\* the three branches on the type of to_string(value)
SetValue(o, key, value, ignore_dups) ==
    IF to_string(value).kind = "str"
    THEN StoreValue(o, key, to_string(value).s, ignore_dups)
    ELSE IF to_string(value).kind = "list"
    THEN SetItems(o, key, value.items, 1, ignore_dups)
    ELSE [o EXCEPT !.err = UnsupportedType]

\* `if key not in self._fields`: the new key gets {} (and joins new_keys) or []
AddKey(o, key, ignore_dups) ==
    IF key \in DOMAIN o.fields THEN o
    ELSE [o EXCEPT !.fields = Put(o.fields, key, <<>>),
                   !.dicts = IF ignore_dups THEN o.dicts \cup {key} ELSE o.dicts,
                   !.new_keys = IF ignore_dups THEN o.new_keys \cup {key}
                                ELSE o.new_keys]

RECURSIVE SetLoop(_, _, _, _)
\* `for key, value in kwargs.items()`, from position i, then (ignore_dups)
\* `for key in new_keys`; o is [err, fields, dicts, new_keys]
SetLoop(o, kwargs, i, ignore_dups) ==
    IF o.err # "" THEN o
    ELSE IF i > Len(kwargs) THEN [o EXCEPT !.dicts = o.dicts \ o.new_keys]
    ELSE SetLoop(SetValue(AddKey(o, Sanitize(Upper(kwargs[i].key)), ignore_dups),
                          Sanitize(Upper(kwargs[i].key)), kwargs[i].value,
                          ignore_dups),
                 kwargs, i + 1, ignore_dups)

\* vc.set(**kwargs) on the object with the given fields: [err, fields, dicts]
SetRun(fields, dicts, kwargs, ignore_dups) ==
    SetLoop([err |-> "", fields |-> fields, dicts |-> dicts, new_keys |-> {}],
            kwargs, 1, ignore_dups)

(***************************************************************************)
(* APICFrame and the PICTURE block                                         *)
(***************************************************************************)
\* the mime type "-->": data is a URL
UrlMime == <<45, 45, 62>>

\* APICFrame(...): [err, obj]; the keyword arguments are already decoded
APICFrame(picture_type, mime_type, description, width, height, color_depth, n_indexed_colors, size, data) ==
    IF mime_type = UrlMime /\ ~Utf8Ok(data)
    THEN [err |-> "UnicodeDecodeError", obj |-> EmptyDict]
    ELSE [err |-> "",
          obj |-> [type |-> picture_type, mime_type |-> mime_type,
                   description |-> description, width |-> width,
                   height |-> height, color_depth |-> color_depth,
                   n_indexed_colors |-> n_indexed_colors,
                   size |-> IF size # 0 THEN size ELSE Len(data),
                   data |-> [text |-> mime_type = UrlMime, bytes |-> data]]]

\* PictureCase with the `if tags_only: continue` of the other cases
PictureCase_TagsOnlySkips(f, st, block_size, to, v) ==
    LET block_data == FileRead(f, st.pos, block_size)
        st1 == AfterRead(st, block_data)
        pictures == IF "PICTURE" \in DOMAIN st1.metadata
                    THEN st1.metadata["PICTURE"] ELSE <<>>
    IN  IF to THEN st1
        ELSE [st1 EXCEPT !.metadata =
                Put(st1.metadata, "PICTURE",
                    Append(pictures, [data |-> block_data]))]

\* case 6: PICTURE
PictureCase(f, st, block_size, to, v) ==
    LET block_data == FileRead(f, st.pos, block_size)
        st1 == AfterRead(st, block_data)
        o1 == 8 + FromBytes(Slice(block_data, 4, 8))
        mime_type == Slice(block_data, 8, o1)
        o2 == o1 + 4 + FromBytes(Slice(block_data, o1, o1 + 4))
        description == Slice(block_data, o1 + 4, o2)
        u32(o) == FromBytes(Slice(block_data, o, o + 4))
        picture == APICFrame(u32(0), mime_type, description, u32(o2),
                             u32(o2 + 4), u32(o2 + 8), u32(o2 + 12),
                             u32(o2 + 16), SliceFrom(block_data, o2 + 20))
        pictures == IF "PICTURE" \in DOMAIN st1.metadata
                    THEN st1.metadata["PICTURE"] ELSE <<>>
    IN  IF ~Utf8Ok(mime_type) \/ ~Utf8Ok(description)
        THEN Raise(st1, "UnicodeDecodeError")
        ELSE IF picture.err # "" THEN Raise(st1, picture.err)
        ELSE [st1 EXCEPT !.metadata =
                Put(st1.metadata, "PICTURE", Append(pictures, picture.obj))]

(***************************************************************************)
(* The CUESHEET block                                                      *)
(***************************************************************************)
\* an optional str: `s or None`
None == [is_none |-> TRUE, str |-> <<>>]
OrNone(s) == IF s = <<>> THEN None ELSE [is_none |-> FALSE, str |-> s]

RECURSIVE JoinNonZero(_)
\* "".join(str(b) for b in bs if b != 0)
JoinNonZero(bs) ==
    IF bs = <<>> THEN <<>>
    ELSE (IF bs[1] # 0 THEN DecStr(bs[1]) ELSE <<>>) \o JoinNonZero(Tail(bs))

RECURSIVE IndexPoints(_, _, _)
\* the inner comprehension over range(n_index_points), from byte_offset:
\* [err, index_points]
IndexPoints(block_data, byte_offset, n) ==
    IF n = 0 THEN [err |-> "", index_points |-> <<>>]
    ELSE IF ~HasAt(block_data, byte_offset + 8)
    THEN [err |-> "IndexError", index_points |-> <<>>]
    ELSE LET rest == IndexPoints(block_data, byte_offset + 12, n - 1)
         IN  [err |-> rest.err,
              index_points |->
                <<[offset |-> Big(Slice(block_data, byte_offset, byte_offset + 8)),
                   number |-> At(block_data, byte_offset + 8)]>>
                \o rest.index_points]

RECURSIVE Tracks(_, _, _)
\* the comprehension over range(n_tracks), from byte_offset: [err, tracks]
Tracks(block_data, byte_offset, n) ==
    IF n = 0 THEN [err |-> "", tracks |-> <<>>]
    ELSE IF ~HasAt(block_data, byte_offset + 8)
            \/ ~HasAt(block_data, byte_offset + 21)
            \/ ~HasAt(block_data, byte_offset + 35)
    THEN [err |-> "IndexError", tracks |-> <<>>]
    ELSE
    LET n_index_points == At(block_data, byte_offset + 35)
        ips == IndexPoints(block_data, byte_offset + 36, n_index_points)
        rest == Tracks(block_data, byte_offset + 36 + 12 * n_index_points, n - 1)
        track == [offset |-> Big(Slice(block_data, byte_offset, byte_offset + 8)),
                  number |-> At(block_data, byte_offset + 8),
                  isrc |-> OrNone(JoinNonZero(
                             Slice(block_data, byte_offset + 9, byte_offset + 21))),
                  audio |-> (At(block_data, byte_offset + 21) \div 128) = 0,
                  pre_emphasis |-> ((At(block_data, byte_offset + 21) \div 64) % 2) = 1,
                  n_index_points |-> n_index_points,
                  index_points |-> ips.index_points]
    IN  IF ips.err # "" THEN [err |-> ips.err, tracks |-> <<>>]
        ELSE [err |-> rest.err, tracks |-> <<track>> \o rest.tracks]

RECURSIVE LaterIndexPoints_NoOffsetCheck(_, _, _, _, _)
\* the loop over the later index points without its offset check
LaterIndexPoints_NoOffsetCheck(index_points, i, previous_index_point_number, seen_index_point_numbers, cd) ==
    IF i > Len(index_points) THEN ""
    ELSE
    LET index_point_number == index_points[i].number
    IN  IF index_point_number \in seen_index_point_numbers
        THEN "Index point with duplicate index point number"
        ELSE IF index_point_number # previous_index_point_number + 1
        THEN "Non-sequential index point numbers"
        ELSE IF index_point_number > 99
        THEN "Index point number greater than 99"
        ELSE LaterIndexPoints_NoOffsetCheck(index_points, i + 1, index_point_number,
                 seen_index_point_numbers \cup {index_point_number}, cd)

RECURSIVE LaterIndexPoints(_, _, _, _, _)
\* the loop over track["index_points"][1:], at position i: the error raised
LaterIndexPoints(index_points, i, previous_index_point_number, seen_index_point_numbers, cd) ==
    IF i > Len(index_points) THEN ""
    ELSE
    LET index_point == index_points[i]
        index_point_number == index_point.number
    IN  IF cd /\ BigMod(index_point.offset, 0, 588) # 0
        THEN "Invalid offset for index point"
        ELSE IF index_point_number \in seen_index_point_numbers
        THEN "Index point with duplicate index point number"
        ELSE IF index_point_number # previous_index_point_number + 1
        THEN "Non-sequential index point numbers"
        ELSE IF index_point_number > 99
        THEN "Index point number greater than 99"
        ELSE LaterIndexPoints(index_points, i + 1, index_point_number,
                 seen_index_point_numbers \cup {index_point_number}, cd)

\* the checks on the index points of one track; byte_offset is that of the
\* track's first index point (after `byte_offset += 36`)
TrackIndexPointsError(block_data, track, byte_offset, cd) ==
    IF track.n_index_points = 0 THEN ""
    ELSE
    LET index_point == track.index_points[1]
    IN  IF cd /\ BigMod(index_point.offset, 0, 588) # 0
        THEN "Invalid offset for index point"
        ELSE IF index_point.number \notin {0, 1}
        THEN "First index point does not have index point number 0 or 1"
        ELSE IF Big(Slice(block_data, byte_offset + 9, byte_offset + 12)) # <<>>
        THEN "Non-zero bits found in reserved section of CUESHEET_TRACK_INDEX"
        ELSE LaterIndexPoints(track.index_points, 2, index_point.number,
                              {index_point.number}, cd)

\* the checks on one track, whose record starts at byte_offset
TrackError(block_data, track, byte_offset, seen_track_numbers, cd) ==
    IF cd /\ BigMod(track.offset, 0, 588) # 0
    THEN "Invalid offset for track"
    ELSE IF cd /\ track.n_index_points > 100
    THEN "More than 100 index points specified"
    ELSE IF track.number = 0
    THEN "Track with track number 0 found"
    ELSE IF track.number \in seen_track_numbers
    THEN "Track with duplicate track number found"
    ELSE IF ~HasAt(block_data, byte_offset + 21)
    THEN "IndexError"
    ELSE IF At(block_data, byte_offset + 21) % 64 # 0
            \/ Big(Slice(block_data, byte_offset + 22, byte_offset + 35)) # <<>>
    THEN "Non-zero bits found in reserved section of CUESHEET_TRACK"
    ELSE TrackIndexPointsError(block_data, track, byte_offset + 36, cd)

RECURSIVE TracksError(_, _, _, _, _, _)
\* the loop `for track in cue_sheet["tracks"]`, at position i
TracksError(block_data, tracks, i, byte_offset, seen_track_numbers, cd) ==
    IF i > Len(tracks) THEN ""
    ELSE
    LET track == tracks[i]
        e == TrackError(block_data, track, byte_offset, seen_track_numbers, cd)
    IN  IF e # "" THEN e
        ELSE TracksError(block_data, tracks, i + 1,
                         byte_offset + 36 + 12 * track.n_index_points,
                         seen_track_numbers \cup {track.number}, cd)

\* the `if validate:` part without the check of the lead-out track's number
CueSheetError_NoLeadOutCheck(block_data, cue_sheet) ==
    LET cd == cue_sheet.cd
        mcn == cue_sheet.media_catalog_number
        n_tracks == cue_sheet.n_tracks
    IN  IF cd /\ ~mcn.is_none /\ StrLen(mcn.str) \notin {0, 13}
        THEN "Invalid media catalog number for CD-DA cue sheet"
        ELSE IF cd /\ n_tracks > 100
        THEN "More than 100 tracks specified in CD-DA cue sheet"
        ELSE IF ~cd /\ cue_sheet.lead_in_samples # <<>>
        THEN "Non-zero number of lead-in samples specified in non-CD-DA cue sheet"
        ELSE IF n_tracks = 0
        THEN "No tracks specified in cue sheet"
        ELSE TracksError(block_data, cue_sheet.tracks, 1, 396, {}, cd)

\* the `if validate:` part for a decoded cue sheet: the error raised
CueSheetError(block_data, cue_sheet) ==
    LET cd == cue_sheet.cd
        mcn == cue_sheet.media_catalog_number
        n_tracks == cue_sheet.n_tracks
        tracks == cue_sheet.tracks
        e == TracksError(block_data, tracks, 1, 396, {}, cd)
    IN  IF cd /\ ~mcn.is_none /\ StrLen(mcn.str) \notin {0, 13}
        THEN "Invalid media catalog number for CD-DA cue sheet"
        ELSE IF cd /\ n_tracks > 100
        THEN "More than 100 tracks specified in CD-DA cue sheet"
        ELSE IF ~cd /\ cue_sheet.lead_in_samples # <<>>
        THEN "Non-zero number of lead-in samples specified in non-CD-DA cue sheet"
        ELSE IF n_tracks = 0
        THEN "No tracks specified in cue sheet"
        ELSE IF e # "" THEN e
        ELSE IF cd /\ tracks[Len(tracks)].number # 170
        THEN "Lead-out track does not have track number 170"
        ELSE IF ~cd /\ tracks[Len(tracks)].number # 255
        THEN "Lead-out track does not have track number 255"
        ELSE ""

\* case 5: CUESHEET
CueSheetCase(f, st, block_size, to, v) ==
    LET block_data == FileRead(f, st.pos, block_size)
        st1 == AfterRead(st, block_data)
    IN  IF to THEN st1
        ELSE IF v /\ ~HasAt(block_data, 136) THEN Raise(st1, "IndexError")
        ELSE IF v /\ (At(block_data, 136) % 128 # 0
                      \/ RStripZeros(Slice(block_data, 137, 395)) # <<>>)
        THEN Raise(st1, "Non-zero bits found in reserved section of CUESHEET block")
        ELSE IF ~HasAt(block_data, 395) THEN Raise(st1, "IndexError")
        ELSE IF ~Utf8Ok(Slice(block_data, 0, 128))
        THEN Raise(st1, "UnicodeDecodeError")
        ELSE
        LET n_tracks == At(block_data, 395)
            ts == Tracks(block_data, 396, n_tracks)
            cue_sheet == [media_catalog_number |->
                              OrNone(RStripZeros(Slice(block_data, 0, 128))),
                          lead_in_samples |-> Big(Slice(block_data, 128, 136)),
                          cd |-> (At(block_data, 136) \div 128) = 1,
                          n_tracks |-> n_tracks,
                          tracks |-> ts.tracks]
            st2 == [st1 EXCEPT !.metadata = Put(st1.metadata, "CUESHEET", cue_sheet)]
            e == CueSheetError(block_data, cue_sheet)
        IN  IF ts.err # "" THEN Raise(st1, ts.err)
            ELSE IF v /\ e # "" THEN Raise(st2, e)
            ELSE st2

(***************************************************************************)
(* FLACAudio.load                                                          *)
(***************************************************************************)
\* b"fLaC"
Magic == <<102, 76, 97, 67>>

\* IsFLAC written as b"fLaC".startswith(file.read(4))
IsFLAC_StartsWith(magic) == magic = SubSeq(Magic, 1, Len(magic))

\* `file.read(4) != b"fLaC"` does not hold
IsFLAC(magic) == magic = Magic

\* case 127
InvalidCase(f, st, block_size, to, v) ==
    Raise(st, "Metadata block with invalid block type found")

\* ReservedCase without the file.read(block_size)
ReservedCase_NoRead(f, st, block_size, to, v) ==
    [st EXCEPT !.warned = Append(st.warned, st.block_header % 128)]

\* case _: warn and skip
ReservedCase(f, st, block_size, to, v) ==
    LET st1 == [st EXCEPT !.warned = Append(st.warned, st.block_header % 128)]
    IN  AfterRead(st1, FileRead(f, st1.pos, block_size))

\* the match statement on block_type, st.pos being just after the header
Dispatch(f, st, block_type, block_size, to, v) ==
    CASE block_type = 0 -> StreamInfoCase(f, st, block_size, to, v)
      [] block_type = 1 -> PaddingCase(f, st, block_size, to, v)
      [] block_type = 2 -> ApplicationCase(f, st, block_size, to, v)
      [] block_type = 3 -> SeekTableCase(f, st, block_size, to, v)
      [] block_type = 4 -> VorbisCommentCase(f, st, block_size, to, v)
      [] block_type = 5 -> CueSheetCase(f, st, block_size, to, v)
      [] block_type = 6 -> PictureCase(f, st, block_size, to, v)
      [] block_type = 127 -> InvalidCase(f, st, block_size, to, v)
      [] OTHER -> ReservedCase(f, st, block_size, to, v)

\* one iteration of the while loop: the header, then the block
ReadBlock(f, st, to, v) ==
    LET header == FileRead(f, st.pos, 1)
    IN  IF header = <<>> THEN Raise(st, "IndexError")
        ELSE
        LET size_bytes == FileRead(f, st.pos + 1, 3)
            st1 == [st EXCEPT !.block_header = header[1],
                              !.pos = st.pos + 1 + Len(size_bytes),
                              !.headers = Append(st.headers, header[1] % 128)]
        IN  Dispatch(f, st1, header[1] % 128, FromBytes(size_bytes), to, v)

\* `while not block_header & 0x80`
LastBlockSeen(st) == (st.block_header \div 128) = 1

RECURSIVE Walk(_, _, _, _)
Walk(f, st, to, v) ==
    IF st.err # "" \/ LastBlockSeen(st) THEN st
    ELSE Walk(f, ReadBlock(f, st, to, v), to, v)

\* the state in which the walk starts, after `self._metadata = {}`
St0 ==
    [pos |-> 4, metadata |-> EmptyDict, block_header |-> 127, err |-> "",
     headers |-> <<>>, bodies |-> <<>>, warned |-> <<>>, assigned |-> TRUE]

\* the state in which load() raises at the magic check, after file.read(4)
\* returned magic: self._metadata is not assigned
NotFLAC(magic) ==
    [pos |-> Len(magic), metadata |-> EmptyDict, block_header |-> 127,
     err |-> "not a valid FLAC audio file",
     headers |-> <<>>, bodies |-> <<>>, warned |-> <<>>, assigned |-> FALSE]

\* a whole load() on file f: what it raised, whether self._metadata was
\* assigned and its value when the call ended, where the cursor stopped
LoadRun(f, to, v) ==
    IF ~IsFLAC(FileRead(f, 0, 4)) THEN NotFLAC(FileRead(f, 0, 4))
    ELSE Walk(f, St0, to, v)

\* the record of a call that ran r == LoadRun(...)
Ran(op, r) ==
    [op |-> op, loaded |-> TRUE, err |-> r.err, pos |-> r.pos,
     headers |-> r.headers, bodies |-> r.bodies, warned |-> r.warned,
     block_header |-> r.block_header]

\* the record of a call that ran no load
NoRun(op) ==
    [op |-> op, loaded |-> FALSE, err |-> "", pos |-> 0,
     headers |-> <<>>, bodies |-> <<>>, warned |-> <<>>, block_header |-> 127]

\* a call of obj.load()
load ==
    /\ n_calls < MaxCalls
    /\ \E r \in {LoadRun(file, tags_only, validate)} :
           /\ has_metadata' = (has_metadata \/ r.assigned)
           /\ self_metadata' = IF r.assigned THEN r.metadata ELSE self_metadata
           /\ last' = Ran("load", r)
    /\ n_calls' = n_calls + 1
    /\ UNCHANGED <<file, tags_only, validate, n_property_loads>>
    /\ UNCHANGED comment_vars

\* metadata without the hasattr() test: every access loads
metadata_AlwaysLoads ==
    /\ n_calls < MaxCalls
    /\ \E r \in {LoadRun(file, tags_only, validate)} :
           /\ has_metadata' = (has_metadata \/ r.assigned)
           /\ self_metadata' = IF r.assigned THEN r.metadata ELSE self_metadata
           /\ last' = Ran("metadata", r)
           /\ n_property_loads' = n_property_loads + 1
    /\ n_calls' = n_calls + 1
    /\ UNCHANGED <<file, tags_only, validate>>
    /\ UNCHANGED comment_vars

\* an access of obj.metadata
metadata ==
    /\ n_calls < MaxCalls
    /\ IF ~has_metadata
       THEN \E r \in {LoadRun(file, tags_only, validate)} :
                /\ has_metadata' = r.assigned
                /\ self_metadata' = IF r.assigned THEN r.metadata ELSE self_metadata
                /\ last' = Ran("metadata", r)
                /\ n_property_loads' = n_property_loads + 1
       ELSE /\ last' = NoRun("metadata")
            /\ UNCHANGED <<has_metadata, self_metadata, n_property_loads>>
    /\ n_calls' = n_calls + 1
    /\ UNCHANGED <<file, tags_only, validate>>
    /\ UNCHANGED comment_vars

(***************************************************************************)
(* A VorbisComment object used on its own: construction, then set() calls  *)
(***************************************************************************)
\* bytestream=None, and a bytes argument
NoBytes == [is_none |-> TRUE, bytes |-> <<>>]
SomeBytes(bs) == [is_none |-> FALSE, bytes |-> bs]

\* before VorbisComment() is called: no object
NoComment ==
    [built |-> FALSE, err |-> "", vendor |-> [is_none |-> TRUE, str |-> <<>>],
     n_fields |-> 0, fields |-> EmptyDict, dicts |-> {}]

NoCommentCall ==
    [op |-> "none", err |-> "", before |-> EmptyDict, before_dicts |-> {},
     kwargs |-> <<>>]

\* the object VorbisComment() returned, or no object when it raised
Built(r) ==
    IF r.err # "" THEN [NoComment EXCEPT !.err = r.err]
    ELSE [built |-> TRUE, err |-> "", vendor |-> r.obj.vendor,
          n_fields |-> r.obj.n_fields, fields |-> r.obj.fields, dicts |-> {}]

\* vc = VorbisComment(bytestream, ignore_duplicates=...)
construct ==
    /\ ~vc_obj.built
    /\ vc_last.op = "none"
    /\ \E r \in {IF vc_bytestream.is_none
                THEN EmptyVorbisComment(vc_ignore_duplicates)
                ELSE VorbisComment(vc_bytestream.bytes, vc_ignore_duplicates)} :
           /\ vc_obj' = Built(r)
           /\ vc_last' = [NoCommentCall EXCEPT !.op = "construct", !.err = r.err]
    /\ UNCHANGED <<vc_bytestream, vc_ignore_duplicates, n_calls>>
    /\ UNCHANGED flac_vars

\* vc.set(**kwargs), for the given kwargs
set_with(kwargs) ==
    /\ vc_obj.built
    /\ n_calls < MaxCalls
    /\ \E r \in {SetRun(vc_obj.fields, vc_obj.dicts, kwargs, vc_ignore_duplicates)} :
           /\ vc_obj' = [vc_obj EXCEPT !.fields = r.fields, !.dicts = r.dicts]
           /\ vc_last' = [op |-> "set", err |-> r.err, before |-> vc_obj.fields,
                          before_dicts |-> vc_obj.dicts, kwargs |-> kwargs]
    /\ n_calls' = n_calls + 1
    /\ UNCHANGED <<vc_bytestream, vc_ignore_duplicates>>
    /\ UNCHANGED flac_vars

(***************************************************************************)
(* The files the model reads: "fLaC" and a chain of at most MaxBlocks      *)
(* valid blocks, last-flagged or not, in any order; "fLaC" and one block   *)
(* of a larger library of valid and invalid bodies, whole, cut short by at *)
(* most MaxCut bytes, or followed by audio; two blocks of one type         *)
(* followed by audio; and a few files that do not start with the magic.    *)
(***************************************************************************)
\* n as 3 big-endian bytes
U24(n) == <<n \div 65536, (n \div 256) % 256, n % 256>>

\* a metadata block: header byte, length, body
Block(type, is_last, body) ==
    <<type + (IF is_last THEN 128 ELSE 0)>> \o U24(Len(body)) \o body

\* STREAMINFO: the given minimum block size (below 65536), maximum block size
\* 4096, 44100 Hz, 2 channels, 16 bits per sample, no samples
StreamInfoBody(min_block_size) ==
    <<min_block_size \div 256, min_block_size % 256, 16, 0>> \o Zeros(6)
    \o <<10, 196, 66, 240>> \o Zeros(4) \o Zeros(16)

\* a seek point with the given sample number (8 bytes)
SeekPointBytes(sample) == sample \o Zeros(8) \o <<16, 0>>
Sample0 == Zeros(8)
Sample44100 == Zeros(6) \o <<172, 68>>

\* vendor "x", fields "a=1" and "A=2" / one field "ab"
VorbisBody == <<1, 0, 0, 0, 120, 2, 0, 0, 0,
                3, 0, 0, 0, 97, 61, 49, 3, 0, 0, 0, 65, 61, 50>>
VorbisBodyNoEquals == <<1, 0, 0, 0, 120, 1, 0, 0, 0, 2, 0, 0, 0, 97, 98>>

\* a PICTURE of type 3 with the given mime type, no description, 2 data bytes
PictureBody(mime_type, data) ==
    <<0, 0, 0, 3>> \o <<0, 0, 0, Len(mime_type)>> \o mime_type \o Zeros(4)
    \o Zeros(16) \o <<0, 0, 0, Len(data)>> \o data

\* a cue-sheet track record with n index points numbered 1, 2, ...
TrackBytes(offset, number, n_index_points) ==
    offset \o <<number>> \o Zeros(12) \o <<0>> \o Zeros(13) \o <<n_index_points>>
    \o [i \in 1..(12 * n_index_points) |-> IF i % 12 = 9 THEN (i + 3) \div 12 ELSE 0]

\* a CUESHEET body: no catalog number, no lead-in, the given tracks
CueSheetBody(cd, n_tracks, tracks) ==
    Zeros(128) \o Zeros(8) \o <<IF cd THEN 128 ELSE 0>> \o Zeros(258)
    \o <<n_tracks>> \o tracks

Offset0 == Zeros(8)
Offset588 == Zeros(6) \o <<2, 76>>
Offset589 == Zeros(6) \o <<2, 77>>

\* the library of block bodies, by block type
Bodies ==
    {[type |-> 0, body |-> StreamInfoBody(4096)],
     [type |-> 0, body |-> StreamInfoBody(256)],
     [type |-> 0, body |-> StreamInfoBody(15)],
     [type |-> 0, body |-> Zeros(10)],
     [type |-> 1, body |-> Zeros(2)],
     [type |-> 2, body |-> <<116, 101, 115, 116>>],
     [type |-> 2, body |-> <<116, 101, 115, 116, 1>>],
     [type |-> 3, body |-> SeekPointBytes(Sample0) \o SeekPointBytes(PlaceholderSample)
                           \o SeekPointBytes(Sample44100)],
     [type |-> 3, body |-> SeekPointBytes(Sample0) \o SeekPointBytes(Sample44100)
                           \o SeekPointBytes(PlaceholderSample)],
     [type |-> 3, body |-> SeekPointBytes(Sample44100) \o SeekPointBytes(Sample0)],
     [type |-> 3, body |-> SeekPointBytes(Sample0) \o <<0>>],
     [type |-> 4, body |-> VorbisBody],
     [type |-> 4, body |-> VorbisBodyNoEquals],
     [type |-> 5, body |-> CueSheetBody(FALSE, 2, TrackBytes(Offset0, 1, 1)
                                                  \o TrackBytes(Offset588, 255, 0))],
     [type |-> 5, body |-> CueSheetBody(TRUE, 2, TrackBytes(Offset589, 1, 1)
                                                 \o TrackBytes(Offset588, 170, 0))],
     [type |-> 6, body |-> PictureBody(<<97>>, <<1, 2>>)],
     [type |-> 6, body |-> PictureBody(UrlMime, <<104, 255>>)],
     [type |-> 7, body |-> <<9>>],
     [type |-> 126, body |-> <<>>],
     [type |-> 127, body |-> <<>>]}

\* one valid body of every kind of block, for the longer chains (APPLICATION,
\* handled like PADDING, is left to the files of one and of two blocks)
ChainBodies ==
    {[type |-> 0, body |-> StreamInfoBody(4096)],
     [type |-> 1, body |-> Zeros(2)],
     [type |-> 3, body |-> SeekPointBytes(Sample0) \o SeekPointBytes(Sample44100)
                           \o SeekPointBytes(PlaceholderSample)],
     [type |-> 4, body |-> VorbisBody],
     [type |-> 5, body |-> CueSheetBody(FALSE, 2, TrackBytes(Offset0, 1, 1)
                                                  \o TrackBytes(Offset588, 255, 0))],
     [type |-> 6, body |-> PictureBody(<<97>>, <<1, 2>>)],
     [type |-> 7, body |-> <<9>>],
     [type |-> 127, body |-> <<>>]}

BlocksOf(bodies) == {Block(b.type, is_last, b.body) : b \in bodies, is_last \in BOOLEAN}

RECURSIVE Chains(_)
\* the concatenations of at most n blocks with bodies of ChainBodies
Chains(n) ==
    IF n = 0 THEN {<<>>}
    ELSE LET shorter == Chains(n - 1)
         IN  shorter \cup {c \o b : c \in shorter, b \in BlocksOf(ChainBodies)}

\* bs without its last k bytes
CutEnd(bs, k) == SubSeq(bs, 1, Max(Len(bs) - k, 0))

\* chains of any blocks
ChainFiles == {Magic \o c : c \in Chains(MaxBlocks)}

\* one block of the library, whole or cut short, with or without the first
\* bytes of an audio frame (the sync code) after it
OneBlockFiles ==
    {CutEnd(Magic \o b, k) : b \in BlocksOf(Bodies), k \in 0..MaxCut}
    \cup {Magic \o b \o <<255, 248>> : b \in BlocksOf(Bodies)}

\* two blocks of the same type, the second one last, and the first bytes of
\* an audio frame
SameTypeFiles ==
    {Magic \o Block(p[1].type, FALSE, p[1].body) \o Block(p[2].type, TRUE, p[2].body)
        \o <<255, 248>> :
        p \in {q \in Bodies \X Bodies : q[1].type = q[2].type}}

\* files that do not start with the magic
OtherFiles ==
    {<<79, 103, 103, 83, 0, 2>>, <<102, 76, 97>>,
     <<102, 76, 97, 99, 128, 0, 0, 0>>, <<70, 76, 65, 67, 129, 0, 0, 0>>}

Files == ChainFiles \cup OneBlockFiles \cup SameTypeFiles \cup OtherFiles

NotCalled == NoRun("none")

Init ==
    /\ file \in Files
    /\ tags_only \in BOOLEAN
    /\ validate \in BOOLEAN
    /\ has_metadata = FALSE
    /\ self_metadata = EmptyDict
    /\ last = NotCalled
    /\ n_calls = 0
    /\ n_property_loads = 0
    /\ vc_bytestream = NoBytes
    /\ vc_ignore_duplicates = FALSE
    /\ vc_obj = NoComment
    /\ vc_last = NoCommentCall

Next == load \/ metadata

Spec == Init /\ [][Next]_vars

(***************************************************************************)
(* The comment blocks the model decodes and the arguments it passes to     *)
(* set(): a vendor string and at most MaxFields records over two keys that *)
(* differ in case only and a third key, with repeated values; and a few    *)
(* blocks whose records are cut short, have no "=", or are not UTF-8.      *)
(***************************************************************************)
\* n (below 65536) as 4 little-endian bytes
U32Little(n) == <<n % 256, n \div 256, 0, 0>>

\* a length-prefixed "key=value" record
Record(key, value) == U32Little(Len(key) + 1 + Len(value)) \o key \o <<61>> \o value

\* a=1, A=1, a=2, b=1
RecordSet ==
    {Record(<<97>>, <<49>>), Record(<<65>>, <<49>>), Record(<<97>>, <<50>>),
     Record(<<98>>, <<49>>)}

RECURSIVE RecordLists(_)
\* the concatenations of exactly n records, each with its number of records
RecordLists(n) ==
    IF n = 0 THEN {<<>>}
    ELSE {rs \o r : rs \in RecordLists(n - 1), r \in RecordSet}

\* vendor "x" and n_fields records
VorbisStream(n_fields, records) ==
    U32Little(1) \o <<120>> \o U32Little(n_fields) \o records

\* blocks outside that family: more records declared than present, no "=",
\* a value that is not UTF-8, "=" in the value, a two-byte character, an
\* empty value, a longer key in mixed case, a cut vendor length, and bytes
\* after the declared records
OtherStreams ==
    {VorbisStream(2, Record(<<97>>, <<49>>)),
     VorbisStream(1, U32Little(2) \o <<97, 98>>),
     VorbisStream(1, Record(<<97>>, <<255>>)),
     VorbisStream(1, Record(<<97>>, <<61, 49>>)),
     VorbisStream(1, Record(<<107>>, <<195, 169>>)),
     VorbisStream(1, Record(<<97>>, <<>>)),
     VorbisStream(2, Record(<<84, 105, 116, 108, 101>>, <<49>>)
                     \o Record(<<116, 105, 116, 108, 101>>, <<50>>)),
     <<1, 0, 0>>,
     VorbisStream(0, Record(<<97>>, <<49>>))}

VcStreams ==
    UNION {{VorbisStream(n, rs) : rs \in RecordLists(n)} : n \in 0..MaxFields}
    \cup OtherStreams

\* one keyword argument
Kw(key, value) == [key |-> key, value |-> value]

\* the keyword arguments of the set() calls: a="1"; a="2"; b=["1", "1", "2"];
\* c=7, d=True; a=None; b="1", a=None; a=["2", None]; **{"a=": "1", "é": []}
Kwargs ==
    {<<Kw(<<97>>, StrValue(<<49>>))>>,
     <<Kw(<<97>>, StrValue(<<50>>))>>,
     <<Kw(<<98>>, ListValue(<<StrValue(<<49>>), StrValue(<<49>>), StrValue(<<50>>)>>))>>,
     <<Kw(<<99>>, IntValue(7)), Kw(<<100>>, BoolValue(TRUE))>>,
     <<Kw(<<97>>, NoneValue)>>,
     <<Kw(<<98>>, StrValue(<<49>>)), Kw(<<97>>, NoneValue)>>,
     <<Kw(<<97>>, ListValue(<<StrValue(<<50>>), NoneValue>>))>>,
     <<Kw(<<97, 61>>, StrValue(<<49>>)), Kw(<<126>>, ListValue(<<>>))>>}

\* a call of vc.set(**kwargs)
set == \E kwargs \in Kwargs : set_with(kwargs)

VcInit ==
    /\ vc_bytestream \in {NoBytes} \cup {SomeBytes(bs) : bs \in VcStreams}
    /\ vc_ignore_duplicates \in BOOLEAN
    /\ vc_obj = NoComment
    /\ vc_last = NoCommentCall
    /\ n_calls = 0
    /\ file = <<>>
    /\ tags_only = FALSE
    /\ validate = TRUE
    /\ has_metadata = FALSE
    /\ self_metadata = EmptyDict
    /\ last = NotCalled
    /\ n_property_loads = 0

VcNext == construct \/ set

VcSpec == VcInit /\ [][VcNext]_vars

(***************************************************************************)
(* The cue sheets the model reads, each as the only block of a file: a     *)
(* data track followed by the lead-out track, where the data track has one *)
(* field off its plain value or any list of at most MaxIndexPoints index   *)
(* points; and every sequence of at most MaxTracks plain tracks numbered   *)
(* 0, 1, 2, 170 or 255.  Each with the CD-DA flag set and not set.         *)
(***************************************************************************)
\* 588 * 2^32, a multiple of 588, and 2^32 + 588, which is not
OffsetHigh588 == <<0, 0, 2, 76, 0, 0, 0, 0>>
OffsetHighPlus588 == <<0, 0, 0, 1, 0, 0, 2, 76>>

\* an index-point record: offset, number, 3 reserved bytes (the last given)
IndexPointBytes(offset, number, reserved) == offset \o <<number, 0, 0, reserved>>

PointSet ==
    {IndexPointBytes(Offset0, 0, 0), IndexPointBytes(Offset0, 1, 0),
     IndexPointBytes(Offset588, 1, 0), IndexPointBytes(Offset588, 2, 0),
     IndexPointBytes(Offset589, 2, 0), IndexPointBytes(OffsetHighPlus588, 2, 0),
     IndexPointBytes(Offset0, 1, 1), IndexPointBytes(Offset588, 2, 1)}

RECURSIVE PointLists(_)
\* the concatenations of at most n index-point records
PointLists(n) ==
    IF n = 0 THEN {<<>>}
    ELSE PointLists(n - 1) \cup {ps \o ip : ps \in PointLists(n - 1), ip \in PointSet}

\* a track record: offset, number, ISRC, flag byte, 13 reserved bytes, the
\* number of index points, the index points
TrackRecord(offset, number, isrc, flags, reserved, points) ==
    offset \o <<number>> \o isrc \o <<flags>> \o reserved
    \o <<Len(points) \div 12>> \o points

\* ISRC bytes: "US" and ten zero bytes, and "USRC17607839"
IsrcUS == <<85, 83>> \o Zeros(10)
IsrcFull == <<85, 83, 82, 67, 49, 55, 54, 48, 55, 56, 51, 57>>

\* track 1 with one index point and one field off its plain value
HeaderTracks ==
    {TrackRecord(offset, 1, Zeros(12), 0, Zeros(13), IndexPointBytes(Offset0, 1, 0)) :
        offset \in {Offset0, Offset588, Offset589, OffsetHigh588, OffsetHighPlus588}}
    \cup {TrackRecord(Offset0, 1, isrc, 0, Zeros(13), IndexPointBytes(Offset0, 1, 0)) :
        isrc \in {IsrcUS, IsrcFull, Zeros(11) \o <<53>>}}
    \cup {TrackRecord(Offset0, 1, Zeros(12), flags, Zeros(13), IndexPointBytes(Offset0, 1, 0)) :
        flags \in {1, 32, 64, 192}}
    \cup {TrackRecord(Offset0, 1, Zeros(12), 0, reserved, IndexPointBytes(Offset0, 1, 0)) :
        reserved \in {<<1>> \o Zeros(12), Zeros(12) \o <<1>>}}

\* track 1 with every list of index points
PointTracks ==
    {TrackRecord(Offset0, 1, Zeros(12), 0, Zeros(13), ps) : ps \in PointLists(MaxIndexPoints)}

\* the lead-out track of a cue sheet
LeadOut(cd) == TrackBytes(Offset588, IF cd THEN 170 ELSE 255, 0)

\* plain tracks without index points
PlainTracks == {TrackBytes(Offset0, number, 0) : number \in {0, 1, 2, 170, 255}}

RECURSIVE TrackLists(_)
\* the lists of at most n plain tracks, each with its number of tracks
TrackLists(n) ==
    IF n = 0 THEN {[n_tracks |-> 0, tracks |-> <<>>]}
    ELSE TrackLists(n - 1)
         \cup {[n_tracks |-> ts.n_tracks + 1, tracks |-> ts.tracks \o t] :
                  ts \in {x \in TrackLists(n - 1) : x.n_tracks = n - 1},
                  t \in PlainTracks}

CueBodies ==
    {CueSheetBody(cd, 2, t \o LeadOut(cd)) :
        t \in HeaderTracks \cup PointTracks, cd \in BOOLEAN}
    \cup {CueSheetBody(cd, ts.n_tracks, ts.tracks) :
        ts \in TrackLists(MaxTracks), cd \in BOOLEAN}

CueFiles == {Magic \o Block(5, TRUE, body) : body \in CueBodies}

CueInit ==
    /\ file \in CueFiles
    /\ tags_only \in BOOLEAN
    /\ validate \in BOOLEAN
    /\ has_metadata = FALSE
    /\ self_metadata = EmptyDict
    /\ last = NotCalled
    /\ n_calls = 0
    /\ n_property_loads = 0
    /\ vc_bytestream = NoBytes
    /\ vc_ignore_duplicates = FALSE
    /\ vc_obj = NoComment
    /\ vc_last = NoCommentCall

CueSpec == CueInit /\ [][Next]_vars

(***************************************************************************)
(* What a file holds, read independently of load(): the chain of complete  *)
(* blocks after the magic, up to the first block that carries the          *)
(* last-metadata-block flag.                                               *)
(***************************************************************************)
RECURSIVE ChainBlocks(_, _)
\* the complete blocks from pos on, the first last-flagged one being the end
ChainBlocks(bs, pos) ==
    IF pos + 4 > Len(bs) THEN <<>>
    ELSE LET size == FromBytes(Slice(bs, pos + 1, pos + 4))
             end == pos + 4 + size
             is_last == At(bs, pos) >= 128
             block == [type |-> At(bs, pos) % 128, is_last |-> is_last,
                       size |-> size, start |-> pos, end |-> end]
         IN  IF end > Len(bs) THEN <<>>
             ELSE IF is_last THEN <<block>>
             ELSE <<block>> \o ChainBlocks(bs, end)

FileBlocks == IF Slice(file, 0, 4) = Magic THEN ChainBlocks(file, 4) ELSE <<>>

\* the file holds the magic and whole blocks up to a last-flagged one
WellFormed == FileBlocks # <<>> /\ FileBlocks[Len(FileBlocks)].is_last

\* where the chain of a well-formed file ends
ChainEnd == FileBlocks[Len(FileBlocks)].end

BlockTypes == [i \in 1..Len(FileBlocks) |-> FileBlocks[i].type]
BlockSizes == [i \in 1..Len(FileBlocks) |-> FileBlocks[i].size]

IsReserved(type) == type >= 7 /\ type <= 126

\* the last call ran a load() that returned without raising
Returned == last.loaded /\ last.err = ""

\* the types of the blocks that may occur once
Singletons == {0, 3, 4, 5}

(***************************************************************************)
(* C1.  After any load() that returns without error, whatever tags_only    *)
(* and validate are, self._metadata has the key "STREAMINFO"; a chain      *)
(* without a STREAMINFO block (type 0) does not load successfully.         *)
(***************************************************************************)
C1_StreamInfoPresent ==
    (Returned /\ WellFormed) =>
                /\ has_metadata
                /\ "STREAMINFO" \in DOMAIN self_metadata
                /\ \E i \in 1..Len(last.headers) : last.headers[i] = 0

(***************************************************************************)
(* C2.  A chain in which STREAMINFO, SEEKTABLE, VORBIS_COMMENT or CUESHEET *)
(* occurs twice makes load() fail: no load() that read two headers of one  *)
(* of these types returns without raising.                                 *)
(***************************************************************************)
C2_DuplicateSingletonFails ==
    (Returned /\ WellFormed) =>
        \A i, j \in 1..Len(last.headers) :
            (i < j /\ last.headers[i] \in Singletons)
                => last.headers[i] # last.headers[j]

(***************************************************************************)
(* C3.  load() never returns successfully from a short read: when it       *)
(* returns without raising, the file holds every byte up to the end of the *)
(* body of the block that carries the last-metadata-block flag.            *)
(***************************************************************************)
C3_NoSuccessOnShortRead == Returned => WellFormed

(***************************************************************************)
(* C4.  When the first 4 bytes of the file are not "fLaC" (files shorter   *)
(* than 4 bytes included), load() fails with the not-a-FLAC error, having  *)
(* read no block header and decoded no block (self._metadata is not even   *)
(* assigned, and the cursor is not beyond the 4 bytes of the magic).       *)
(***************************************************************************)
C4_BadMagicRejected ==
    (last.loaded /\ Slice(file, 0, 4) # Magic) =>
        /\ last.err = "not a valid FLAC audio file"
        /\ last.headers = <<>>
        /\ last.bodies = <<>>
        /\ last.pos = Min(4, Len(file))
        /\ ~has_metadata

\* a load() of a file that holds a block header after 4 bytes that are not
\* the magic
C4_Witness ==
    /\ last.op = "load"
    /\ Len(file) >= 8
    /\ Slice(file, 0, 4) # Magic
    /\ last.err = "not a valid FLAC audio file"

(***************************************************************************)
(* C5.  For every well-formed chain and every tags_only, when load()       *)
(* returns the cursor is 4 plus the sum of (4 + block length) over the     *)
(* blocks up to and including the first last-flagged one: the header of    *)
(* each of these blocks was read, its body was read exactly once and in    *)
(* full, whatever its type, and nothing after the chain was read.          *)
(***************************************************************************)
C5_ConsumesExactlyTheChain ==
    (Returned /\ WellFormed) =>
        /\ last.pos = ChainEnd
        /\ last.headers = BlockTypes
        /\ last.bodies = BlockSizes

\* a load() with tags_only that returned from a chain of two blocks or more
\* with audio (or anything else) after it
C5_Witness ==
    /\ Returned
    /\ WellFormed
    /\ tags_only
    /\ Len(last.bodies) >= 2
    /\ last.pos = ChainEnd
    /\ ChainEnd < Len(file)

(***************************************************************************)
(* C6.  A block of type 7..126 is skipped: a warning is emitted for it,    *)
(* its body is consumed, nothing is added to the metadata, and the walk    *)
(* goes on with the next block exactly as if the block were not in the     *)
(* file, or stops if the block carried the last flag.  A block of type 127 *)
(* makes load() fail.  All of this whatever tags_only and validate are.    *)
(***************************************************************************)
RECURSIVE WithoutReserved(_, _)
\* the bytes of bs from pos on, without the complete reserved blocks of the
\* chain that do not carry the last flag
WithoutReserved(bs, pos) ==
    IF pos + 4 > Len(bs) THEN SliceFrom(bs, pos)
    ELSE LET end == pos + 4 + FromBytes(Slice(bs, pos + 1, pos + 4))
         IN  IF end > Len(bs) \/ At(bs, pos) >= 128 THEN SliceFrom(bs, pos)
             ELSE IF IsReserved(At(bs, pos)) THEN WithoutReserved(bs, end)
             ELSE Slice(bs, pos, end) \o WithoutReserved(bs, end)

\* the warnings are those for the reserved types among the headers read
WarnedReserved == last.warned = SelectSeq(last.headers, IsReserved)

\* the body of every reserved block whose header was read was read too
ReservedConsumed ==
    \A i \in 1..Len(last.headers) :
        IsReserved(last.headers[i]) => i <= Len(last.bodies)

C6_ReservedSkippedInvalidFatal ==
    (last.loaded /\ Slice(file, 0, 4) = Magic) =>
        LET other == LoadRun(Magic \o WithoutReserved(file, 4), tags_only, validate)
            n == Len(last.headers)
        IN  /\ WarnedReserved
            /\ ReservedConsumed
            /\ last.err = other.err
            /\ self_metadata = other.metadata
            /\ SelectSeq(last.headers, LAMBDA t : ~IsReserved(t))
                 = SelectSeq(other.headers, LAMBDA t : ~IsReserved(t))
            /\ (n > 0 /\ IsReserved(last.headers[n]) /\ last.block_header >= 128)
                 => /\ last.err = ""
                    /\ WellFormed => last.pos = ChainEnd
            /\ (\E i \in 1..Len(BlockTypes) : BlockTypes[i] = 127)
                 => last.err # ""
            /\ (\E i \in 1..n : last.headers[i] = 127)
                 => /\ last.err = "Metadata block with invalid block type found"
                    /\ last.headers[n] = 127

\* a load() that skipped a reserved block, went on, decoded the next block
\* and returned
C6_Witness ==
    /\ Returned
    /\ Len(last.headers) >= 2
    /\ IsReserved(last.headers[1])
    /\ last.warned # <<>>
    /\ DOMAIN self_metadata # {}

(***************************************************************************)
(* C7.  With tags_only, after a load() that returned the metadata holds    *)
(* records for VORBIS_COMMENT and PICTURE blocks only; the bodies of all   *)
(* blocks were read; the Vorbis comment and the pictures are those a       *)
(* load() without tags_only decodes from the same file (with validation on *)
(* or off, whenever that load returns), one picture per PICTURE block; and *)
(* the last-block flag ends the walk whatever block carries it.            *)
(***************************************************************************)
\* d restricted to the keys in keys
Restrict(d, keys) == [k \in DOMAIN d \cap keys |-> d[k]]

TagKeys == {"VORBIS_COMMENT", "PICTURE"}

\* the number of headers of the given type the last call read
CountRead(type) == Cardinality({i \in 1..Len(last.headers) : last.headers[i] = type})

C7_TagsOnlyKeepsTags ==
    (Returned /\ tags_only) =>
        /\ DOMAIN self_metadata \subseteq TagKeys
        /\ Len(last.bodies) = Len(last.headers)
        /\ last.block_header >= 128
        /\ \A i \in 1..(Len(last.headers) - 1) : ~FileBlocks[i].is_last
        /\ ("VORBIS_COMMENT" \in DOMAIN self_metadata) <=> (CountRead(4) > 0)
        /\ IF "PICTURE" \in DOMAIN self_metadata
           THEN Len(self_metadata["PICTURE"]) = CountRead(6)
           ELSE CountRead(6) = 0
        /\ \A v \in BOOLEAN :
             LET full == LoadRun(file, FALSE, v)
             IN  full.err = "" =>
                   /\ Restrict(full.metadata, TagKeys) = self_metadata
                   /\ full.pos = last.pos

\* a load() with tags_only that discarded a last-flagged block after it had
\* decoded a Vorbis comment or a picture
C7_Witness ==
    /\ Returned
    /\ tags_only
    /\ DOMAIN self_metadata # {}
    /\ Len(last.headers) >= 2
    /\ last.headers[Len(last.headers)] \in {0, 1, 2, 3, 5}
    /\ LoadRun(file, FALSE, validate).err = ""

(***************************************************************************)
(* C8.  load() is idempotent: a load() that returns leaves the aggregate   *)
(* an earlier load() of the unchanged file left.  As amended: the metadata *)
(* property runs a load only while self._metadata has never been assigned; *)
(* once a load has got past the magic check, every later access reuses     *)
(* self._metadata, so the property runs more than one load only on a file  *)
(* that fails the magic check.                                             *)
(***************************************************************************)
\* a load() that returns leaves what the load before it left
LoadIdempotent ==
    (has_metadata /\ last'.loaded /\ last'.err = "")
        => (self_metadata' = self_metadata /\ has_metadata')

\* the property loads only while self._metadata is unassigned
PropertyReuses ==
    has_metadata => (n_property_loads' = n_property_loads /\ has_metadata')

C8_IdempotentLoadOnceAssigned ==
    /\ [][LoadIdempotent]_vars
    /\ [][PropertyReuses]_vars
    /\ [](n_property_loads > 1 => (~has_metadata /\ Slice(file, 0, 4) # Magic))

\* C8 as claimed: load() is idempotent and the property runs at most one load
C8_PropertyLoadsAtMostOnce ==
    /\ [][LoadIdempotent]_vars
    /\ [](n_property_loads <= 1)

\* a second access of the property, which ran no load and reused the
\* aggregate that the load run by the first access had left
C8_Witness ==
    /\ n_calls = 2
    /\ n_property_loads = 1
    /\ last.op = "metadata"
    /\ ~last.loaded
    /\ "PICTURE" \in DOMAIN self_metadata
    /\ self_metadata = LoadRun(file, tags_only, validate).metadata
    /\ LoadRun(file, tags_only, validate).err = ""

(***************************************************************************)
(* C9.  When load() has raised after it had decoded some blocks, no        *)
(* partial aggregate is observable: an access of the metadata property     *)
(* that returns a non-empty aggregate returns that of a load() of the      *)
(* file that did not raise.  (Stated for the files that hold a whole       *)
(* chain, where no load() fails for want of bytes.)                        *)
(***************************************************************************)
C9_NoPartialMetadata ==
    (last.op = "metadata" /\ last.err = "" /\ DOMAIN self_metadata # {}
     /\ WellFormed)
        => LoadRun(file, tags_only, validate).err = ""

(***************************************************************************)
(* C10.  With validation on, a SEEKTABLE is accepted when its seek points  *)
(* that are not placeholders have strictly increasing sample numbers,      *)
(* wherever its placeholder points are: the table with the sample numbers  *)
(* (0, 0xFFFFFFFFFFFFFFFF, 44100) is accepted.                             *)
(***************************************************************************)
\* the sample numbers of the seek points of a SEEKTABLE body
SampleNumbers(body) ==
    [p \in 1..(Len(body) \div 18) |-> Big(Slice(body, 18 * (p - 1), 18 * (p - 1) + 8))]

\* every sample number that is not the placeholder is larger than the
\* non-placeholder sample number before it
NonPlaceholdersIncrease(samples) ==
    LET real == SelectSeq(samples, LAMBDA x : x # PlaceholderSample)
    IN  \A i \in 1..(Len(real) - 1) : BigLess(real[i], real[i + 1])

C10_PlaceholderDoesNotConstrain ==
    (/\ last.loaded
     /\ validate
     /\ ~tags_only
     /\ WellFormed
     /\ Len(FileBlocks) = 1
     /\ FileBlocks[1].type = 3
     /\ FileBlocks[1].size % 18 = 0
     /\ NonPlaceholdersIncrease(
            SampleNumbers(Slice(file, FileBlocks[1].start + 4, FileBlocks[1].end))))
        => last.err = ""

(***************************************************************************)
(* The records a comment block was written from, for the claims about the  *)
(* decoded field map: the (key, value) pairs, in file order.               *)
(***************************************************************************)
Pair(key, value) == [key |-> key, value |-> value]

\* the pairs of RecordSet
Pairs ==
    {Pair(<<97>>, <<49>>), Pair(<<65>>, <<49>>), Pair(<<97>>, <<50>>),
     Pair(<<98>>, <<49>>)}

RECURSIVE PairListsOf(_)
PairListsOf(n) ==
    IF n = 0 THEN {<<>>}
    ELSE {Append(ps, p) : ps \in PairListsOf(n - 1), p \in Pairs}

\* the lists of at most MaxFields pairs, and those of the well-formed blocks
\* of OtherStreams
PairLists ==
    UNION {PairListsOf(n) : n \in 0..MaxFields}
    \cup {<<Pair(<<97>>, <<61, 49>>)>>, <<Pair(<<107>>, <<195, 169>>)>>,
          <<Pair(<<97>>, <<>>)>>,
          <<Pair(<<84, 105, 116, 108, 101>>, <<49>>),
            Pair(<<116, 105, 116, 108, 101>>, <<50>>)>>}

RECURSIVE EncodePairs(_)
EncodePairs(ps) ==
    IF ps = <<>> THEN <<>>
    ELSE Record(ps[1].key, ps[1].value) \o EncodePairs(Tail(ps))

\* the block that holds exactly the pairs ps
StreamOf(ps) == VorbisStream(Len(ps), EncodePairs(ps))

\* a byte of a lowercase ASCII letter
IsLower(b) == b >= 97 /\ b <= 122

\* key with its letters a-z replaced by A-Z, written out letter by letter
UpperCased(key) == [i \in 1..Len(key) |-> IF IsLower(key[i]) THEN key[i] - 32 ELSE key[i]]

\* the values of the pairs of ps whose upper-cased key is K, in file order
ValuesOf(ps, K) ==
    LET sel == SelectSeq(ps, LAMBDA p : UpperCased(p.key) = K)
    IN  [i \in 1..Len(sel) |-> sel[i].value]

\* the number of values over all keys of a field map
TotalValues(fields) ==
    Cardinality(UNION {{<<k, i>> : i \in 1..Len(fields[k])} : k \in DOMAIN fields})

\* s without the elements equal to an earlier element
Dedup(s) ==
    LET keep == {i \in 1..Len(s) : \A j \in 1..(i - 1) : s[j] # s[i]}
    IN  [n \in 1..Cardinality(keep) |->
            s[CHOOSE i \in keep : Cardinality({j \in keep : j <= i}) = n]]

(***************************************************************************)
(* C11.  VorbisComment(bytestream) with ignore_duplicates=False: the field *)
(* map groups the values of the KEY=VALUE records by upper-cased key, in   *)
(* file order, duplicates kept; the number of values over all keys is      *)
(* n_fields; no key holds a letter a-z; n_fields = 0 gives an empty map.   *)
(***************************************************************************)
C11_GroupsValuesByUpperKey ==
    (vc_last.op = "construct" /\ ~vc_ignore_duplicates /\ ~vc_bytestream.is_none) =>
        /\ vc_obj.built =>
            /\ TotalValues(vc_obj.fields) = vc_obj.n_fields
            /\ \A k \in DOMAIN vc_obj.fields : \A i \in 1..Len(k) : ~IsLower(k[i])
            /\ vc_obj.n_fields = 0 => vc_obj.fields = EmptyDict
        /\ \A ps \in PairLists :
             vc_bytestream.bytes = StreamOf(ps) =>
                /\ vc_obj.built
                /\ vc_obj.n_fields = Len(ps)
                /\ DOMAIN vc_obj.fields = {UpperCased(ps[i].key) : i \in 1..Len(ps)}
                /\ \A K \in DOMAIN vc_obj.fields : vc_obj.fields[K] = ValuesOf(ps, K)

\* a block of three records under the keys "a" and "A", two of them with the
\* same value, decoded with the duplicate kept
C11_Witness ==
    /\ vc_last.op = "construct"
    /\ ~vc_ignore_duplicates
    /\ vc_obj.built
    /\ vc_obj.n_fields = 3
    /\ vc_bytestream.bytes = StreamOf(<<Pair(<<97>>, <<49>>), Pair(<<65>>, <<49>>),
                                        Pair(<<97>>, <<50>>)>>)
    /\ vc_obj.fields = (<<65>> :> <<<<49>>, <<49>>, <<50>>>>)

(***************************************************************************)
(* C12.  VorbisComment(bytestream, ignore_duplicates=True): for each       *)
(* upper-cased key the list of its distinct values in first-seen order,    *)
(* which is the ignore_duplicates=False list without the values equal to   *)
(* an earlier one.                                                         *)
(***************************************************************************)
C12_DropsLaterDuplicates ==
    (vc_last.op = "construct" /\ vc_ignore_duplicates /\ ~vc_bytestream.is_none) =>
        /\ \E plain \in {VorbisComment(vc_bytestream.bytes, FALSE)} :
             /\ vc_obj.err = plain.err
             /\ vc_obj.built =>
                  /\ DOMAIN vc_obj.fields = DOMAIN plain.obj.fields
                  /\ \A K \in DOMAIN vc_obj.fields :
                        vc_obj.fields[K] = Dedup(plain.obj.fields[K])
        /\ \A ps \in PairLists :
             vc_bytestream.bytes = StreamOf(ps) =>
                /\ vc_obj.built
                /\ DOMAIN vc_obj.fields = {UpperCased(ps[i].key) : i \in 1..Len(ps)}
                /\ \A K \in DOMAIN vc_obj.fields :
                      vc_obj.fields[K] = Dedup(ValuesOf(ps, K))

\* the block a=1, a=2, A=1 decoded with the third value dropped
C12_Witness ==
    /\ vc_last.op = "construct"
    /\ vc_ignore_duplicates
    /\ vc_obj.built
    /\ vc_bytestream.bytes = StreamOf(<<Pair(<<97>>, <<49>>), Pair(<<97>>, <<50>>),
                                        Pair(<<65>>, <<49>>)>>)
    /\ vc_obj.fields = (<<65>> :> <<<<49>>, <<50>>>>)

(***************************************************************************)
(* C19.  After any sequence of set() calls on a comment object, built      *)
(* empty or from a bytestream, with either value of ignore_duplicates:     *)
(* every value of the field map is a list of strings; a call whose values  *)
(* are all valid (a str, a bool, a number, or a list of these) succeeds;   *)
(* set(key=value) for a key that exists appends the value to its list, or  *)
(* with ignore_duplicates adds it only if the list does not hold it; and a *)
(* call that raises TypeError leaves the field map as it was.              *)
(***************************************************************************)
\* a value set() accepts
ValidValue(value) ==
    \/ value.kind \in {"str", "bool", "int"}
    \/ /\ value.kind = "list"
       /\ \A i \in 1..Len(value.items) : value.items[i].kind \in {"str", "bool", "int"}

\* the key under which set() files the keyword key
FieldKey(key) == Sanitize(UpperCased(key))

C19_SetKeepsListsOrLeavesUnchanged ==
    /\ vc_obj.dicts = {}
    /\ vc_last.op = "set" =>
         /\ (\A i \in 1..Len(vc_last.kwargs) : ValidValue(vc_last.kwargs[i].value))
              => vc_last.err = ""
         /\ vc_last.err # "" => vc_obj.fields = vc_last.before
         /\ (/\ vc_last.err = ""
             /\ Len(vc_last.kwargs) = 1
             /\ vc_last.kwargs[1].value.kind = "str"
             /\ FieldKey(vc_last.kwargs[1].key) \in DOMAIN vc_last.before)
              => \E K \in {FieldKey(vc_last.kwargs[1].key)} :
                 \E value \in {vc_last.kwargs[1].value.s} :
                    vc_obj.fields =
                        IF vc_ignore_duplicates /\ InList(vc_last.before[K], value)
                        THEN vc_last.before
                        ELSE Put(vc_last.before, K, Append(vc_last.before[K], value))

(***************************************************************************)
(* The cue sheet a file holds, read from its bytes independently of        *)
(* load(): the records of the tracks and of their index points.            *)
(***************************************************************************)
\* the body of the file's first block
CueBody == Slice(file, 8, 8 + FromBytes(Slice(file, 5, 8)))

RECURSIVE RecordsFit(_, _, _)
\* the n track records from pos on lie inside body, index points included
RecordsFit(body, pos, n) ==
    IF n = 0 THEN TRUE
    ELSE /\ pos + 36 <= Len(body)
         /\ pos + 36 + 12 * body[pos + 36] <= Len(body)
         /\ RecordsFit(body, pos + 36 + 12 * body[pos + 36], n - 1)

\* the file's first block is a whole CUESHEET block with whole records
HoldsCueSheet ==
    /\ Len(file) >= 8 + 396
    /\ Slice(file, 0, 4) = Magic
    /\ file[5] % 128 = 5
    /\ Len(CueBody) >= 396
    /\ RecordsFit(CueBody, 396, CueBody[396])

RECURSIVE TrackStarts(_, _, _)
\* where the n track records from pos on start (0-based positions in body)
TrackStarts(body, pos, n) ==
    IF n = 0 THEN <<>>
    ELSE <<pos>> \o TrackStarts(body, pos + 36 + 12 * body[pos + 36], n - 1)

FileTrackStarts == TrackStarts(CueBody, 396, CueBody[396])
FileCdDa == CueBody[137] >= 128

\* the records of the file's tracks, and of the index points of track t
FileTrack(t) == Slice(CueBody, FileTrackStarts[t], FileTrackStarts[t] + 36)
FilePointCount(t) == FileTrack(t)[36]
FilePoint(t, k) == Slice(CueBody, FileTrackStarts[t] + 36 + 12 * (k - 1), FileTrackStarts[t] + 36 + 12 * k)
FileTrackNumber(t) == FileTrack(t)[9]

\* load() decoded the file's cue sheet: it was called, not in tags-only mode
DecodedCueSheet == last.loaded /\ ~tags_only /\ HoldsCueSheet
StoredCueSheet == "CUESHEET" \in DOMAIN self_metadata

RECURSIVE Weight588(_)
\* 256^i modulo 588
Weight588(i) == IF i = 0 THEN 1 ELSE (256 * Weight588(i - 1)) % 588

RECURSIVE Residue588(_)
\* the big-endian number bs modulo 588, digit by digit from the right
Residue588(bs) ==
    IF bs = <<>> THEN 0
    ELSE (bs[1] * Weight588(Len(bs) - 1) + Residue588(Tail(bs))) % 588

\* C13: with validation on, a CD-DA cue sheet that a successful load() stored
\* has every track offset and every index-point offset, first and later ones
\* alike, divisible by 588; and a CD-DA cue sheet whose file holds a track or
\* an index point at an offset not divisible by 588 is rejected.
C13_CdDaOffsetsDivisible ==
    (DecodedCueSheet /\ validate /\ FileCdDa) =>
        /\ (last.err = "" /\ StoredCueSheet) =>
              \A t \in 1..Len(self_metadata["CUESHEET"].tracks) :
                 LET track == self_metadata["CUESHEET"].tracks[t]
                 IN  /\ Residue588(track.offset) = 0
                     /\ \A k \in 1..Len(track.index_points) :
                           Residue588(track.index_points[k].offset) = 0
        /\ (\E t \in 1..Len(FileTrackStarts) :
               \/ Residue588(SubSeq(FileTrack(t), 1, 8)) # 0
               \/ \E k \in 1..FilePointCount(t) :
                     Residue588(SubSeq(FilePoint(t, k), 1, 8)) # 0)
           => last.err # ""

\* an accepted CD-DA sheet whose first track has a later index point at a
\* non-zero offset, and another whose track offset needs more than 32 bits
C13_Witness ==
    /\ DecodedCueSheet /\ validate /\ FileCdDa
    /\ last.err = "" /\ StoredCueSheet
    /\ LET track == self_metadata["CUESHEET"].tracks[1]
       IN  \/ /\ Len(track.index_points) = 2
              /\ track.index_points[2].offset = <<2, 76>>
           \/ Len(track.offset) > 4

\* the number the lead-out track of the file's cue sheet must carry
LeadOutNumber == IF FileCdDa THEN 170 ELSE 255

\* C14: with validation on, a cue sheet whose only track is the lead-out
\* track (number 170 for CD-DA, 255 otherwise) is rejected as having no
\* tracks specified.
C14_LeadOutOnlyRejected ==
    (DecodedCueSheet /\ validate
       /\ Len(FileTrackStarts) = 1 /\ FileTrackNumber(1) = LeadOutNumber)
    => last.err = "No tracks specified in cue sheet"

(***************************************************************************)
(* The STREAMINFO block a file holds and its 16 trailing bytes             *)
(***************************************************************************)
StreamInfoBlocks == {i \in 1..Len(FileBlocks) : FileBlocks[i].type = 0}

\* the 16 bytes that end the body of block i
Trailer(i) == Slice(file, FileBlocks[i].end - 16, FileBlocks[i].end)

HexDigits == <<48, 49, 50, 51, 52, 53, 54, 55, 56, 57, 97, 98, 99, 100, 101, 102>>

\* two lowercase hexadecimal digits for each byte of bs
HexText(bs) ==
    [i \in 1..2 * Len(bs) |->
       LET b == bs[(i + 1) \div 2]
       IN  HexDigits[(IF i % 2 = 1 THEN b \div 16 ELSE b % 16) + 1]]

\* C15: the md5 field of the stored STREAMINFO is the lowercase hexadecimal
\* rendering of the 16 trailing bytes of the block themselves; a trailer of
\* 16 zero bytes gives 32 digits "0".
C15_Md5IsHexOfTrailer ==
    (Returned /\ WellFormed /\ "STREAMINFO" \in DOMAIN self_metadata
       /\ Cardinality(StreamInfoBlocks) = 1)
    => \A i \in StreamInfoBlocks :
          FileBlocks[i].size = 34
          => /\ self_metadata["STREAMINFO"].md5 = HexText(Trailer(i))
             /\ Trailer(i) = Zeros(16)
                => self_metadata["STREAMINFO"].md5 = [k \in 1..32 |-> 48]

\* C16: with validation on, a cue sheet is rejected whenever a reserved bit
\* or byte of a track or index-point record is non-zero: the low 6 bits of
\* the flag byte of a track, its 13 reserved bytes, and the 3 reserved bytes
\* of each of its index points, the first and the later ones alike.
C16_ReservedBitsRejected ==
    (DecodedCueSheet /\ validate
       /\ \E t \in 1..Len(FileTrackStarts) :
             \/ FileTrack(t)[22] % 64 # 0
             \/ SubSeq(FileTrack(t), 23, 35) # Zeros(13)
             \/ \E k \in 1..FilePointCount(t) :
                   SubSeq(FilePoint(t, k), 10, 12) # Zeros(3))
    => last.err # ""

\* the track numbers of the file's cue sheet, in order
FileTrackNumbers == [t \in 1..Len(FileTrackStarts) |-> FileTrackNumber(t)]

\* the last track carries the lead-out number, and every earlier track a
\* non-zero number that no other track carries
NumbersAccepted ==
    LET numbers == FileTrackNumbers
        n == Len(numbers)
    IN  /\ n >= 1
        /\ numbers[n] = LeadOutNumber
        /\ \A t \in 1..(n - 1) :
              /\ numbers[t] # 0
              /\ \A u \in 1..n : u # t => numbers[u] # numbers[t]

\* nothing but the track numbers is set in the file's cue sheet
PlainSheet ==
    /\ SubSeq(CueBody, 1, 136) = Zeros(136)
    /\ SubSeq(CueBody, 138, 395) = Zeros(258)
    /\ CueBody[137] % 128 = 0
    /\ \A t \in 1..Len(FileTrackStarts) :
          /\ SubSeq(FileTrack(t), 1, 8) = Zeros(8)
          /\ SubSeq(FileTrack(t), 10, 36) = Zeros(27)

\* C17: with validation on, the lead-out number check applies to the last
\* track and only to it: an accepted cue sheet has a last track numbered 170
\* (CD-DA) or 255 (otherwise) and earlier tracks with non-zero numbers that
\* no other track uses, and a sheet in which nothing but the track numbers
\* is set is accepted as soon as its numbers are so.
C17_LeadOutCheckOnLastTrackOnly ==
    (DecodedCueSheet /\ validate) =>
        /\ last.err = "" => NumbersAccepted
        /\ (PlainSheet /\ NumbersAccepted) => last.err = ""
        /\ last.err \in {"Lead-out track does not have track number 170",
                         "Lead-out track does not have track number 255"}
           => FileTrackNumbers[Len(FileTrackNumbers)] # LeadOutNumber

\* an accepted sheet whose first track carries a lead-out number (170 in a
\* sheet that is not CD-DA, or 255 in one that is) before the lead-out track
C17_Witness ==
    /\ DecodedCueSheet /\ validate /\ last.err = ""
    /\ Len(FileTrackNumbers) = 2
    /\ FileTrackNumbers[1] \in {170, 255}

\* C18: the decoded isrc of a track is the ASCII text of its 12 ISRC bytes
\* with the zero bytes removed, one character for each non-zero byte, and
\* is absent exactly when all 12 bytes are zero.
C18_IsrcIsAsciiText ==
    (DecodedCueSheet /\ StoredCueSheet) =>
        \A t \in 1..Len(self_metadata["CUESHEET"].tracks) :
           LET isrc == self_metadata["CUESHEET"].tracks[t].isrc
               text == SelectSeq(SubSeq(FileTrack(t), 10, 21), LAMBDA b : b # 0)
           IN  /\ isrc.is_none <=> text = <<>>
               /\ ~isrc.is_none => isrc.str = text
====
